---- MODULE Spec2Model ----
(***************************************************************************)
(* A model of the custom-CRS projection subsystem:                         *)
(*   CustomCRSProjection  (custom_crs_projection.ts, src/unnamed/part_000) *)
(*   CustomCRSTransform   (src/src/geo/projection/custom_crs_transform.ts) *)
(*   createProjectionFromName / createCustomCRSProjection (same file)      *)
(*                                                                         *)
(* JavaScript numbers are modelled as exact rationals extended with the    *)
(* IEEE-754 special values NaN, +Infinity and -Infinity; rounding is       *)
(* abstracted away, division by zero and the propagation of NaN/Infinity   *)
(* are not.                                                                *)
(***************************************************************************)
EXTENDS Integers, Sequences, FiniteSets, TLC

(***************************************************************************)
(* Numbers                                                                 *)
(***************************************************************************)
Abs(i) == IF i < 0 THEN -i ELSE i

Sgn(i) == IF i < 0 THEN -1 ELSE IF i = 0 THEN 0 ELSE 1

RECURSIVE Gcd(_, _)
Gcd(a, b) == IF b = 0 THEN a ELSE Gcd(b, a % b)

NaN == [k |-> "nan", n |-> 0, d |-> 1]

Inf(s) == [k |-> "inf", n |-> s, d |-> 1]

\* the rational n/d (d # 0) in lowest terms with a positive denominator
Rat(n, d) ==
    LET g == Gcd(Abs(n), Abs(d))
    IN  [k |-> "fin", n |-> Sgn(d) * (n \div g), d |-> Abs(d) \div g]

Num(i) == [k |-> "fin", n |-> i, d |-> 1]

IsFinite(a) == a.k = "fin"

\* a - b
FSub(a, b) ==
    IF a.k = "nan" \/ b.k = "nan" THEN NaN
    ELSE IF a.k = "inf" THEN (IF b.k = "inf" /\ b.n = a.n THEN NaN ELSE a)
    ELSE IF b.k = "inf" THEN Inf(-b.n)
    ELSE Rat(a.n * b.d - b.n * a.d, a.d * b.d)

\* a + b
FAdd(a, b) ==
    IF a.k = "nan" \/ b.k = "nan" THEN NaN
    ELSE IF a.k = "inf" THEN (IF b.k = "inf" /\ b.n # a.n THEN NaN ELSE a)
    ELSE IF b.k = "inf" THEN b
    ELSE Rat(a.n * b.d + b.n * a.d, a.d * b.d)

\* a * b (Infinity * 0 is NaN); finite factors are cross-reduced first
FMul(a, b) ==
    IF a.k = "nan" \/ b.k = "nan" THEN NaN
    ELSE IF a.k = "inf" \/ b.k = "inf"
         THEN (IF Sgn(a.n) * Sgn(b.n) = 0 THEN NaN ELSE Inf(Sgn(a.n) * Sgn(b.n)))
    ELSE LET g1 == Gcd(Abs(a.n), b.d)
             g2 == Gcd(Abs(b.n), a.d)
         IN  Rat((a.n \div g1) * (b.n \div g2), (a.d \div g2) * (b.d \div g1))

\* a / b (x / 0 is +-Infinity, 0 / 0 is NaN, x / Infinity is 0)
FDiv(a, b) ==
    IF a.k = "nan" \/ b.k = "nan" THEN NaN
    ELSE IF a.k = "inf" THEN (IF b.k = "inf" THEN NaN
                              ELSE Inf(a.n * (IF b.n < 0 THEN -1 ELSE 1)))
    ELSE IF b.k = "inf" THEN Num(0)
    ELSE IF b.n = 0 THEN (IF a.n = 0 THEN NaN ELSE Inf(Sgn(a.n)))
    ELSE FMul(a, [k |-> "fin", n |-> Sgn(b.n) * b.d, d |-> Abs(b.n)])

(***************************************************************************)
(* The geodesy converter (proj4, an external library): its registry of     *)
(* definitions and the forward / inverse functions of a converter.  The    *)
(* converters are stubs given by tables, as in the projection's tests.     *)
(***************************************************************************)
NoDef == ""

DefNZTM == "+proj=tmerc +lat_0=0 +lon_0=173 +x_0=1600000 +y_0=10000000"

DefBuiltin3857 == "+proj=merc (built in)"

\* a proj-string that parses but names no known projection
DefUnknownProj == "+proj=nonexistent"

\* neither a proj-string nor parsable well-known text
DefUnparsable == "not a definition"

Codes == {"EPSG:2193", "EPSG:3857", "EPSG:5041"}

ResolvableDefs == {DefNZTM, DefBuiltin3857}

\* proj4.defs(code, definition): parses the definition and stores it under
\* the code; a string it cannot parse makes the call throw
Proj4DefsThrows(definition) == definition = DefUnparsable

Proj4Defs(reg, code, definition) == [reg EXCEPT ![code] = definition]

\* proj4('WGS84', code) throws unless the code resolves to a usable definition
Proj4Resolves(reg, code) == reg[code] \in ResolvableDefs

\* the stub tables: <<lng, lat>> -> <<x, y>> in native units
ForwardTable(conv) ==
    IF conv = DefNZTM
    THEN (<<174, -41>> :> <<Num(1748816), Num(5428960)>>)
         @@ (<<173, 0>> :> <<Num(1600000), Num(10000000)>>)
    ELSE (<<0, 0>> :> <<Num(0), Num(0)>>)
         @@ (<<1, 1>> :> <<Num(500), Num(250)>>)
         @@ (<<0, 90>> :> <<Num(0), Inf(1)>>)

IsInt(a) == a.k = "fin" /\ a.d = 1

\* converter.forward([lng, lat]): the possible outcomes.  A point outside
\* the domain of the CRS comes back as NaN; a non-finite input is rejected
\* by the library or propagated, depending on the library version.
Forward(conv, lng, lat) ==
    IF ~(IsFinite(lng) /\ IsFinite(lat))
    THEN {[threw |-> TRUE, val |-> <<NaN, NaN>>], [threw |-> FALSE, val |-> <<NaN, NaN>>]}
    ELSE IF IsInt(lng) /\ IsInt(lat) /\ <<lng.n, lat.n>> \in DOMAIN ForwardTable(conv)
    THEN {[threw |-> FALSE, val |-> ForwardTable(conv)[<<lng.n, lat.n>>]]}
    ELSE {[threw |-> FALSE, val |-> <<NaN, NaN>>]}

\* converter.inverse([x, y]): the inverse of the table where it is finite
Inverse(conv, x, y) ==
    IF ~(IsFinite(x) /\ IsFinite(y))
    THEN {[threw |-> TRUE, val |-> <<NaN, NaN>>], [threw |-> FALSE, val |-> <<NaN, NaN>>]}
    ELSE LET hits == {ll \in DOMAIN ForwardTable(conv) : ForwardTable(conv)[ll] = <<x, y>>}
         IN  IF hits = {}
             THEN {[threw |-> FALSE, val |-> <<NaN, NaN>>]}
             ELSE {[threw |-> FALSE, val |-> <<Num(ll[1]), Num(ll[2])>>] : ll \in hits}

(***************************************************************************)
(* CustomCRSConfig values used as inputs                                   *)
(***************************************************************************)
\* useSubdivision is optional: "absent", "true" or "false"
Config(code, definition, bounds, useSubdivision) ==
    [code |-> code, definition |-> definition, bounds |-> bounds,
     useSubdivision |-> useSubdivision]

BoundsNZTM == <<274000, 3087000, 3327000, 7173000>>

BoundsSquare == <<0, 0, 1000, 1000>>

BoundsZeroWidth == <<0, 0, 0, 1000>>

\* the calls of createCustomCRSProjection tried: <<config, transformConstrain>>
CreateInputs ==
    { <<Config("EPSG:2193", DefNZTM, BoundsNZTM, "absent"), "none">>,
      <<Config("EPSG:2193", NoDef, BoundsNZTM, "true"), "constrainFn">>,
      <<Config("EPSG:2193", DefUnknownProj, BoundsNZTM, "absent"), "none">>,
      <<Config("EPSG:3857", NoDef, BoundsSquare, "true"), "none">>,
      <<Config("EPSG:3857", NoDef, BoundsSquare, "true"), "constrainFn">>,
      <<Config("EPSG:3857", NoDef, BoundsZeroWidth, "false"), "none">>,
      <<Config("EPSG:5041", NoDef, BoundsSquare, "absent"), "none">>,
      <<Config("EPSG:5041", DefUnparsable, BoundsSquare, "absent"), "constrainFn">> }

(***************************************************************************)
(* CustomCRSProjection                                                     *)
(***************************************************************************)
\* _cachedMesh = null
NoMesh == [owner |-> 0, serial |-> 0, vertices |-> <<>>, indices |-> <<>>]

\* a projection instance holds, besides _config, _proj4Instance (converter)
\* and _cachedMesh, three history fields:
\*   meshes     the number of Mesh objects it has built
\*   buffers    the vertex / index buffer pairs created since the last destroy()
\*   handedOut  the meshes getMeshFromTileID returned since the last destroy()
\* constructor: the outcome of new CustomCRSProjection(config) on registry reg
\*   threw = "raw"     an exception of the library, not caught
\*   threw = "wrapped" the Error built in the catch block, naming config.code
\*   threw = ""        an instance
Constructor(config, reg) ==
    LET defined == config.definition # NoDef
        reg1    == IF defined /\ ~Proj4DefsThrows(config.definition)
                   THEN Proj4Defs(reg, config.code, config.definition)
                   ELSE reg
    IN  IF defined /\ Proj4DefsThrows(config.definition)
        THEN [threw |-> "raw", msgCode |-> "", reg |-> reg, proj |-> <<>>]
        ELSE IF ~Proj4Resolves(reg1, config.code)
        THEN [threw |-> "wrapped", msgCode |-> config.code, reg |-> reg1, proj |-> <<>>]
        ELSE [threw |-> "", msgCode |-> "", reg |-> reg1,
              proj |-> <<[config |-> config, converter |-> reg1[config.code],
                          cachedMesh |-> NoMesh,
                          meshes |-> 0, buffers |-> 0, handedOut |-> {}]>>]

\* a normalization that clamps its result to the unit square
Clamp01(a) ==
    IF a.k = "nan" THEN a
    ELSE IF a.k = "inf" THEN (IF a.n < 0 THEN Num(0) ELSE Num(1))
    ELSE IF a.n < 0 THEN Num(0)
    ELSE IF a.n > a.d THEN Num(1)
    ELSE a

Mut_normalizeCoordinates(bounds, x, y) ==
    LET minX == Num(bounds[1])
        minY == Num(bounds[2])
        maxX == Num(bounds[3])
        maxY == Num(bounds[4])
    IN  <<Clamp01(FDiv(FSub(x, minX), FSub(maxX, minX))),
          Clamp01(FDiv(FSub(y, minY), FSub(maxY, minY)))>>

normalizeCoordinates(bounds, x, y) ==
    LET minX == Num(bounds[1])
        minY == Num(bounds[2])
        maxX == Num(bounds[3])
        maxY == Num(bounds[4])
    IN  <<FDiv(FSub(x, minX), FSub(maxX, minX)), FDiv(FSub(y, minY), FSub(maxY, minY))>>

\* a denormalization that scales by the upper bound instead of the extent
Mut_denormalizeCoordinates(bounds, normalizedX, normalizedY) ==
    LET minX == Num(bounds[1])
        minY == Num(bounds[2])
        maxX == Num(bounds[3])
        maxY == Num(bounds[4])
    IN  <<FAdd(FMul(normalizedX, maxX), minX),
          FAdd(FMul(normalizedY, maxY), minY)>>

denormalizeCoordinates(bounds, normalizedX, normalizedY) ==
    LET minX == Num(bounds[1])
        minY == Num(bounds[2])
        maxX == Num(bounds[3])
        maxY == Num(bounds[4])
    IN  <<FAdd(FMul(normalizedX, FSub(maxX, minX)), minX),
          FAdd(FMul(normalizedY, FSub(maxY, minY)), minY)>>

\* transformFromWGS84(lng, lat): [result[0], result[1]] of converter.forward
transformFromWGS84(proj, lng, lat) == Forward(proj.converter, lng, lat)

\* transformToWGS84(x, y): [result[0], result[1]] of converter.inverse
transformToWGS84(proj, x, y) == Inverse(proj.converter, x, y)

CustomCRSShaderDefine == "#define PROJECTION_CUSTOM_CRS"

CustomCRSShaderVariantKey == "custom-crs"

\* get name (the word name is taken by the factory's parameter)
projectionName(proj) == "mercator"

\* get shaderVariantName
shaderVariantName(proj) == CustomCRSShaderVariantKey

\* get shaderDefine
shaderDefine(proj) == CustomCRSShaderDefine

\* a transition state that follows the mesh cache
Mut_transitionState(proj) == IF proj.cachedMesh # NoMesh THEN 1 ELSE 0

\* get transitionState
transitionState(proj) == 0

\* get latitudeErrorCorrectionRadians
latitudeErrorCorrectionRadians(proj) == 0

\* hasTransition()
hasTransition(proj) == FALSE

\* get useSubdivision: this._config.useSubdivision || false
useSubdivision(proj) == proj.config.useSubdivision = "true"

\* new SubdivisionGranularityExpression(baseZoomGranularity, minGranularity)
SubdivisionGranularityExpression(base, min) == [base |-> base, min |-> min]

\* SubdivisionGranularitySetting.noSubdivision
noSubdivision ==
    [fill |-> SubdivisionGranularityExpression(0, 0),
     line |-> SubdivisionGranularityExpression(0, 0),
     tile |-> SubdivisionGranularityExpression(0, 0),
     stencil |-> SubdivisionGranularityExpression(0, 0),
     circle |-> 1]

\* a granularity getter that subdivides whatever the flag says
Mut_subdivisionGranularity(proj) ==
    LET fillLine == SubdivisionGranularityExpression(256, 2)
        tileStencil == SubdivisionGranularityExpression(512, 2)
    IN  [fill |-> fillLine, line |-> fillLine, tile |-> tileStencil,
         stencil |-> tileStencil, circle |-> 5]

\* get subdivisionGranularity
subdivisionGranularity(proj) ==
    IF proj.config.useSubdivision = "true"
    THEN LET fillLine == SubdivisionGranularityExpression(256, 2)
             tileStencil == SubdivisionGranularityExpression(512, 2)
         IN  [fill |-> fillLine, line |-> fillLine, tile |-> tileStencil,
              stencil |-> tileStencil, circle |-> 5]
    ELSE noSubdivision

\* destroy(): the cache slot is emptied (the buffers are not released)
destroy(proj) ==
    [proj EXCEPT !.cachedMesh = NoMesh, !.buffers = 0, !.handedOut = {}]

\* the quad of getMeshFromTileID, in units of EXTENT: the vertices emplaced
\* in the PosArray and the triangles emplaced in the TriangleIndexArray
QuadVertices == <<<<0, 0>>, <<1, 0>>, <<0, 1>>, <<1, 1>>>>

QuadIndices == <<<<1, 0, 2>>, <<1, 2, 3>>>>

\* a getMeshFromTileID without the cache: every call builds a mesh
Mut_getMeshFromTileID(proj, index, context, tileID, hasBorder, allowPoles, usage) ==
    LET mesh == [owner |-> index, serial |-> proj.meshes + 1,
                 vertices |-> QuadVertices, indices |-> QuadIndices]
    IN  [mesh |-> mesh,
         proj |-> [proj EXCEPT !.cachedMesh = mesh,
                               !.meshes = @ + 1,
                               !.buffers = @ + 1,
                               !.handedOut = @ \cup {mesh}]]

\* getMeshFromTileID(context, tileID, hasBorder, allowPoles, usage) on the
\* instance proj, the index-th projection: the mesh returned and the instance
\* afterwards.  The cached mesh is returned when there is one; otherwise one
\* vertex buffer and one index buffer are created in the context and the new
\* Mesh is cached.  The tile, the flags, the usage and the configuration's
\* useSubdivision are not read.
getMeshFromTileID(proj, index, context, tileID, hasBorder, allowPoles, usage) ==
    IF proj.cachedMesh # NoMesh
    THEN [mesh |-> proj.cachedMesh,
          proj |-> [proj EXCEPT !.handedOut = @ \cup {proj.cachedMesh}]]
    ELSE LET mesh == [owner |-> index, serial |-> proj.meshes + 1,
                      vertices |-> QuadVertices, indices |-> QuadIndices]
         IN  [mesh |-> mesh,
              proj |-> [proj EXCEPT !.cachedMesh = mesh,
                                    !.meshes = @ + 1,
                                    !.buffers = @ + 1,
                                    !.handedOut = @ \cup {mesh}]]

(***************************************************************************)
(* The inherited MercatorTransform pipeline between the unit square and    *)
(* the screen, for a fixed camera: a scaling by the world size.            *)
(***************************************************************************)
WorldSize == 512

MercatorCoordinate(x, y, z) == <<x, y>>

coordinatePoint(mc) == <<FMul(mc[1], Num(WorldSize)), FMul(mc[2], Num(WorldSize))>>

screenPointToMercatorCoordinate(p) ==
    MercatorCoordinate(FDiv(p[1], Num(WorldSize)), FDiv(p[2], Num(WorldSize)), 0)

\* new LngLat(lng, lat): may reject values that are not numbers
LngLatOutcomes(lng, lat) ==
    IF IsFinite(lng) /\ IsFinite(lat)
    THEN {[threw |-> FALSE, val |-> <<lng, lat>>]}
    ELSE {[threw |-> TRUE, val |-> <<lng, lat>>], [threw |-> FALSE, val |-> <<lng, lat>>]}

(***************************************************************************)
(* CustomCRSTransform                                                      *)
(***************************************************************************)
\* a conversion that hands the native coordinates to coordinatePoint unnormalized
Mut_locationToScreenPoint(proj, lnglat) ==
    { IF f.threw
      THEN [threw |-> TRUE, mc |-> <<NaN, NaN>>, val |-> <<NaN, NaN>>]
      ELSE LET mc == MercatorCoordinate(f.val[1], f.val[2], 0)
           IN  [threw |-> FALSE, mc |-> mc, val |-> coordinatePoint(mc)]
      : f \in transformFromWGS84(proj, lnglat[1], lnglat[2]) }

\* the outcomes of locationToScreenPoint: the point handed to coordinatePoint
\* (mc) and the screen point returned (val)
locationToScreenPoint(proj, lnglat) ==
    { IF f.threw
      THEN [threw |-> TRUE, mc |-> <<NaN, NaN>>, val |-> <<NaN, NaN>>]
      ELSE LET n  == normalizeCoordinates(proj.config.bounds, f.val[1], f.val[2])
               mc == MercatorCoordinate(n[1], n[2], 0)
           IN  [threw |-> FALSE, mc |-> mc, val |-> coordinatePoint(mc)]
      : f \in transformFromWGS84(proj, lnglat[1], lnglat[2]) }

\* the outcomes of screenPointToLocation
screenPointToLocation(proj, p) ==
    LET mercatorCoord == screenPointToMercatorCoordinate(p)
        xy == denormalizeCoordinates(proj.config.bounds, mercatorCoord[1], mercatorCoord[2])
    IN  UNION { IF g.threw
                THEN {[threw |-> TRUE, val |-> <<NaN, NaN>>]}
                ELSE LngLatOutcomes(g.val[1], g.val[2])
                : g \in transformToWGS84(proj, xy[1], xy[2]) }

projectCRSToMercator(proj, crsX, crsY) ==
    LET n == normalizeCoordinates(proj.config.bounds, crsX, crsY)
    IN  MercatorCoordinate(n[1], n[2], 0)

unprojectMercatorToCRS(proj, mercatorX, mercatorY) ==
    denormalizeCoordinates(proj.config.bounds, mercatorX, mercatorY)

\* the center a constrain function moves a requested center to
ConstrainedCenter == <<Num(1), Num(1)>>

\* the inherited setCenter(center): the center stored.  It is the one given,
\* unless the transform's constrain function decides on another one.
setCenter(center, constrain) ==
    IF constrain = "none" THEN {center} ELSE {center, ConstrainedCenter}

\* the outcomes of setCenterInCRS(x, y): the converter's inverse of (x, y)
\* (lngLat) and the center stored by setCenter(new LngLat(lng, lat))
setCenterInCRS(proj, constrain, x, y) ==
    UNION { IF g.threw
            THEN {[threw |-> TRUE, lngLat |-> g.val, center |-> g.val]}
            ELSE UNION { IF l.threw
                         THEN {[threw |-> TRUE, lngLat |-> g.val, center |-> g.val]}
                         ELSE {[threw |-> FALSE, lngLat |-> g.val, center |-> c]
                               : c \in setCenter(l.val, constrain)}
                         : l \in LngLatOutcomes(g.val[1], g.val[2]) }
            : g \in transformToWGS84(proj, x, y) }

\* a getCenterInCRS that returns the center in unit-square coordinates
Mut_getCenterInCRS(proj, center) ==
    { IF f.threw THEN f
      ELSE [threw |-> FALSE,
            val |-> normalizeCoordinates(proj.config.bounds, f.val[1], f.val[2])]
      : f \in transformFromWGS84(proj, center[1], center[2]) }

\* the outcomes of getCenterInCRS() when this.center is center
getCenterInCRS(proj, center) == transformFromWGS84(proj, center[1], center[2])

(***************************************************************************)
(* The projection factory                                                  *)
(***************************************************************************)
\* a projection name: a string, or an array (a style expression)
Name(val) == [isArray |-> FALSE, val |-> val]

ArrayName(val) == [isArray |-> TRUE, val |-> val]

GlobeExpression == "interpolate linear zoom 11 vertical-perspective 12 mercator"

Triple(projection, type, transform, constrain, cameraHelper) ==
    [projection |-> projection, type |-> type, transform |-> transform,
     constrain |-> constrain, cameraHelper |-> cameraHelper]

\* the objects a call constructs are numbered in the order of their `new`
\* expressions, the projection first; objects.projection is the projection
\* object returned, objects.helperProjection the projection object handed to
\* the camera helper's constructor (0: the helper takes none)

\* a 'mercator' case that hands out the custom-CRS transform
Mut_MercatorCase(transformConstrain) ==
    [triple |-> Triple("MercatorProjection", "", "CustomCRSTransform",
                       transformConstrain, "MercatorCameraHelper"),
     warn |-> "",
     objects |-> [projection |-> 1, helperProjection |-> 0]]

\* case 'mercator'
MercatorCase(transformConstrain) ==
    [triple |-> Triple("MercatorProjection", "", "MercatorTransform",
                       transformConstrain, "MercatorCameraHelper"),
     warn |-> "",
     objects |-> [projection |-> 1, helperProjection |-> 0]]

\* a globe projection built with a Mercator transform and camera helper
Mut_GlobeCase(type, transformConstrain) ==
    [triple |-> Triple("GlobeProjection", type, "MercatorTransform",
                       transformConstrain, "MercatorCameraHelper"),
     warn |-> "",
     objects |-> [projection |-> 1, helperProjection |-> 0]]

\* a globe case whose camera helper gets a second GlobeProjection
Mut_GlobeCaseRebuilt(type, transformConstrain) ==
    [triple |-> Triple("GlobeProjection", type, "GlobeTransform",
                       transformConstrain, "GlobeCameraHelper"),
     warn |-> "",
     objects |-> [projection |-> 1, helperProjection |-> 2]]

\* an array name (type: the array), and case 'globe' (type: GlobeExpression)
GlobeCase(type, transformConstrain) ==
    [triple |-> Triple("GlobeProjection", type, "GlobeTransform",
                       transformConstrain, "GlobeCameraHelper"),
     warn |-> "",
     objects |-> [projection |-> 1, helperProjection |-> 1]]

\* case 'vertical-perspective'
VerticalPerspectiveCase(transformConstrain) ==
    [triple |-> Triple("VerticalPerspectiveProjection", "",
                       "VerticalPerspectiveTransform", transformConstrain,
                       "VerticalPerspectiveCameraHelper"),
     warn |-> "",
     objects |-> [projection |-> 1, helperProjection |-> 0]]

\* the fallback without its warning
Mut_DefaultCase(name, transformConstrain) ==
    [triple |-> Triple("MercatorProjection", "", "MercatorTransform",
                       transformConstrain, "MercatorCameraHelper"),
     warn |-> "",
     objects |-> [projection |-> 1, helperProjection |-> 0]]

\* default: warnOnce names the unknown projection, Mercator is returned
DefaultCase(name, transformConstrain) ==
    [triple |-> Triple("MercatorProjection", "", "MercatorTransform",
                       transformConstrain, "MercatorCameraHelper"),
     warn |-> name.val,
     objects |-> [projection |-> 1, helperProjection |-> 0]]

\* createProjectionFromName(name, transformConstrain): the triple returned
\* and the name in the message handed to warnOnce ("" when it is not called)
createProjectionFromName(name, transformConstrain) ==
    IF name.isArray
    THEN GlobeCase(name.val, transformConstrain)
    ELSE CASE name.val = "mercator" -> MercatorCase(transformConstrain)
           [] name.val = "globe" -> GlobeCase(GlobeExpression, transformConstrain)
           [] name.val = "vertical-perspective" ->
                VerticalPerspectiveCase(transformConstrain)
           [] OTHER -> DefaultCase(name, transformConstrain)

\* warnOnce(message): whether the message is logged, given those logged before
warnOnce(history, message) == message \notin history

\* the center of a transform that has not been moved: new LngLat(0, 0)
DefaultCenter == <<Num(0), Num(0)>>

\* a factory that drops the constrain function
Mut_createCustomCRSProjection(config, transformConstrain, reg, index) ==
    LET c == Constructor(config, reg)
    IN  IF c.threw # ""
        THEN [threw |-> c.threw, msgCode |-> c.msgCode, reg |-> c.reg,
              proj |-> <<>>, transform |-> <<>>, cameraHelper |-> ""]
        ELSE [threw |-> "", msgCode |-> "", reg |-> c.reg, proj |-> c.proj,
              transform |-> <<[kind |-> "CustomCRSTransform", customProjection |-> index,
                               constrain |-> "none",
                               center |-> DefaultCenter]>>,
              cameraHelper |-> "MercatorCameraHelper"]

\* a factory that binds every transform to the first projection constructed
Mut_createCustomCRSProjectionShared(config, transformConstrain, reg, index) ==
    LET c == Constructor(config, reg)
    IN  IF c.threw # ""
        THEN [threw |-> c.threw, msgCode |-> c.msgCode, reg |-> c.reg,
              proj |-> <<>>, transform |-> <<>>, cameraHelper |-> ""]
        ELSE [threw |-> "", msgCode |-> "", reg |-> c.reg, proj |-> c.proj,
              transform |-> <<[kind |-> "CustomCRSTransform", customProjection |-> 1,
                               constrain |-> transformConstrain,
                               center |-> DefaultCenter]>>,
              cameraHelper |-> "MercatorCameraHelper"]

\* createCustomCRSProjection(config, transformConstrain) on registry reg:
\* the constructor's outcome, and on success the transform and camera helper
createCustomCRSProjection(config, transformConstrain, reg, index) ==
    LET c == Constructor(config, reg)
    IN  IF c.threw # ""
        THEN [threw |-> c.threw, msgCode |-> c.msgCode, reg |-> c.reg,
              proj |-> <<>>, transform |-> <<>>, cameraHelper |-> ""]
        ELSE [threw |-> "", msgCode |-> "", reg |-> c.reg, proj |-> c.proj,
              transform |-> <<[kind |-> "CustomCRSTransform", customProjection |-> index,
                               constrain |-> transformConstrain,
                               center |-> DefaultCenter]>>,
              cameraHelper |-> "MercatorCameraHelper"]

(***************************************************************************)
(* State                                                                   *)
(***************************************************************************)
VARIABLES
    registry,         \* proj4's definitions: code -> definition (NoDef: unknown)
    projections,      \* the CustomCRSProjection instances, in order of creation
    transforms,       \* the CustomCRSTransform instances, in order of creation
    warnOnceHistory,  \* the messages warnOnce has seen
    warnings,         \* the warnings written to the console, in order
    last              \* the last call: operation, receiver, arguments, outcome

vars == <<registry, projections, transforms, warnOnceHistory, warnings, last>>

MaxProjections == 2

\* the record of a call; src is the argument of the preceding call whose
\* result this call was applied to (<<>> when it was not)
Call(op, obj, arg, res, threw, src) ==
    [op |-> op, obj |-> obj, arg |-> arg, res |-> res, threw |-> threw, src |-> src]

NoCall == Call("", 0, <<>>, <<>>, "", <<>>)

Constrains == {"none", "constrainFn"}

NativePoints ==
    {<<Num(500), Num(250)>>, <<Num(2000), Num(-1000)>>,
     <<Num(1748816), Num(5428960)>>, <<Num(0), Num(500)>>}

UnitPoints == {<<Rat(1, 2), Rat(1, 4)>>, <<Num(2), Num(-1)>>}

LngLats ==
    {<<Num(174), Num(-41)>>, <<Num(173), Num(0)>>, <<Num(0), Num(0)>>,
     <<Num(1), Num(1)>>, <<Num(0), Num(90)>>}

ScreenPoints == {<<Num(256), Num(128)>>}

Names ==
    {Name("mercator"), Name("globe"), Name("vertical-perspective"),
     ArrayName(GlobeExpression), ArrayName("interpolate linear zoom 5 mercator 6 globe"),
     Name("equirectangular"), Name("albers"), Name("custom-crs")}

\* the results of the preceding call op on receiver obj, as inputs
Chained(op, obj) ==
    IF last.op = op /\ last.obj = obj /\ last.threw = "" THEN {last.res} ELSE {}

\* the argument of the preceding call op on obj when its result was v
Source(op, obj, v) ==
    IF last.op = op /\ last.obj = obj /\ last.threw = "" /\ last.res = v
    THEN <<last.arg>> ELSE <<>>

Init ==
    /\ registry = [c \in Codes |-> IF c = "EPSG:3857" THEN DefBuiltin3857 ELSE NoDef]
    /\ projections = <<>>
    /\ transforms = <<>>
    /\ warnOnceHistory = {}
    /\ warnings = <<>>
    /\ last = NoCall

(***************************************************************************)
(* Actions of the custom-CRS objects                                       *)
(***************************************************************************)
CreateCustomCRSProjection(config, transformConstrain) ==
    LET r == createCustomCRSProjection(config, transformConstrain, registry,
                                       Len(projections) + 1)
    IN  /\ r.threw = "" => Len(projections) < MaxProjections
        /\ registry' = r.reg
        /\ projections' = projections \o r.proj
        /\ transforms' = transforms \o r.transform
        /\ last' = Call("createCustomCRSProjection",
                        IF r.threw = "" THEN Len(projections) + 1 ELSE 0,
                        <<config, transformConstrain>>,
                        [msgCode |-> r.msgCode, cameraHelper |-> r.cameraHelper],
                        r.threw, <<>>)
        /\ UNCHANGED <<warnOnceHistory, warnings>>

NormalizeCoordinates(i, p) ==
    /\ last' = Call("normalizeCoordinates", i, p,
                    normalizeCoordinates(projections[i].config.bounds, p[1], p[2]),
                    "", <<>>)
    /\ UNCHANGED <<registry, projections, transforms, warnOnceHistory, warnings>>

DenormalizeCoordinates(i, p) ==
    /\ last' = Call("denormalizeCoordinates", i, p,
                    denormalizeCoordinates(projections[i].config.bounds, p[1], p[2]),
                    "", Source("normalizeCoordinates", i, p))
    /\ UNCHANGED <<registry, projections, transforms, warnOnceHistory, warnings>>

ProjectCRSToMercator(t, p) ==
    /\ last' = Call("projectCRSToMercator", t, p,
                    projectCRSToMercator(projections[transforms[t].customProjection],
                                         p[1], p[2]),
                    "", <<>>)
    /\ UNCHANGED <<registry, projections, transforms, warnOnceHistory, warnings>>

UnprojectMercatorToCRS(t, p) ==
    /\ last' = Call("unprojectMercatorToCRS", t, p,
                    unprojectMercatorToCRS(projections[transforms[t].customProjection],
                                           p[1], p[2]),
                    "", Source("projectCRSToMercator", t, p))
    /\ UNCHANGED <<registry, projections, transforms, warnOnceHistory, warnings>>

TransformFromWGS84(i, ll) ==
    /\ \E f \in transformFromWGS84(projections[i], ll[1], ll[2]) :
          last' = Call("transformFromWGS84", i, ll, f.val,
                       IF f.threw THEN "raw" ELSE "", <<>>)
    /\ UNCHANGED <<registry, projections, transforms, warnOnceHistory, warnings>>

TransformToWGS84(i, p) ==
    /\ \E g \in transformToWGS84(projections[i], p[1], p[2]) :
          last' = Call("transformToWGS84", i, p, g.val,
                       IF g.threw THEN "raw" ELSE "", <<>>)
    /\ UNCHANGED <<registry, projections, transforms, warnOnceHistory, warnings>>

LocationToScreenPoint(t, ll) ==
    /\ \E r \in locationToScreenPoint(projections[transforms[t].customProjection], ll) :
          last' = Call("locationToScreenPoint", t, ll, r.val,
                       IF r.threw THEN "raw" ELSE "", <<r.mc>>)
    /\ UNCHANGED <<registry, projections, transforms, warnOnceHistory, warnings>>

ScreenPointToLocation(t, p) ==
    /\ \E r \in screenPointToLocation(projections[transforms[t].customProjection], p) :
          last' = Call("screenPointToLocation", t, p, r.val,
                       IF r.threw THEN "raw" ELSE "",
                       Source("locationToScreenPoint", t, p))
    /\ UNCHANGED <<registry, projections, transforms, warnOnceHistory, warnings>>

Create == \E in \in CreateInputs : CreateCustomCRSProjection(in[1], in[2])

\* construction and the bounds normalizer
Next ==
    \/ Create
    \/ \E i \in 1..Len(projections), p \in NativePoints : NormalizeCoordinates(i, p)
    \/ \E i \in 1..Len(projections) :
          \E p \in UnitPoints \cup Chained("normalizeCoordinates", i) :
             DenormalizeCoordinates(i, p)
    \/ \E t \in 1..Len(transforms), p \in NativePoints : ProjectCRSToMercator(t, p)
    \/ \E t \in 1..Len(transforms) :
          \E p \in UnitPoints \cup Chained("projectCRSToMercator", t) :
             UnprojectMercatorToCRS(t, p)

Spec == Init /\ [][Next]_vars

\* construction and the geographic <-> screen conversions
GeoNext ==
    \/ Create
    \/ \E i \in 1..Len(projections), ll \in LngLats : TransformFromWGS84(i, ll)
    \/ \E i \in 1..Len(projections), p \in NativePoints : TransformToWGS84(i, p)
    \/ \E t \in 1..Len(transforms), ll \in LngLats : LocationToScreenPoint(t, ll)
    \/ \E t \in 1..Len(transforms) :
          \E p \in ScreenPoints \cup Chained("locationToScreenPoint", t) :
             ScreenPointToLocation(t, p)

GeoSpec == Init /\ [][GeoNext]_vars

(***************************************************************************)
(* Actions of the factory by name                                          *)
(***************************************************************************)
CreateProjectionFromName(name, transformConstrain) ==
    LET r == createProjectionFromName(name, transformConstrain)
        logged == r.warn # "" /\ warnOnce(warnOnceHistory, r.warn)
    IN  /\ warnOnceHistory' = IF logged THEN warnOnceHistory \cup {r.warn}
                              ELSE warnOnceHistory
        /\ warnings' = IF logged THEN Append(warnings, r.warn) ELSE warnings
        /\ last' = Call("createProjectionFromName", 0, <<name, transformConstrain>>,
                        [triple |-> r.triple, warnOnceCalls |-> IF r.warn = "" THEN 0 ELSE 1,
                         logged |-> IF logged THEN 1 ELSE 0, objects |-> r.objects],
                        "", <<>>)
        /\ UNCHANGED <<registry, projections, transforms>>

FactoryNext ==
    \E name \in Names, tc \in Constrains : CreateProjectionFromName(name, tc)

FactorySpec == Init /\ [][FactoryNext]_vars

(***************************************************************************)
(* Actions on the tile mesh and the rendering metadata of a projection     *)
(***************************************************************************)
\* the Mesh objects one projection builds in a run are at most MaxMeshes
MaxMeshes == 2

\* configurations with the subdivision flag set and omitted
MeshCreateInputs ==
    { <<Config("EPSG:3857", NoDef, BoundsSquare, "true"), "none">>,
      <<Config("EPSG:2193", DefNZTM, BoundsNZTM, "absent"), "none">> }

\* <<tileID, hasBorder, allowPoles, usage>>
MeshCalls ==
    { <<"0/0/0", FALSE, FALSE, "raster">>, <<"3/1/2", TRUE, TRUE, "stencil">> }

GetMeshFromTileID(i, a) ==
    LET r == getMeshFromTileID(projections[i], i, "context", a[1], a[2], a[3], a[4])
    IN  /\ projections[i].cachedMesh = NoMesh => projections[i].meshes < MaxMeshes
        /\ projections' = [projections EXCEPT ![i] = r.proj]
        /\ last' = Call("getMeshFromTileID", i, a, r.mesh, "", <<>>)
        /\ UNCHANGED <<registry, transforms, warnOnceHistory, warnings>>

\* the result recorded is the mesh that was in the cache
Destroy(i) ==
    /\ projections' = [projections EXCEPT ![i] = destroy(projections[i])]
    /\ last' = Call("destroy", i, <<>>, projections[i].cachedMesh, "", <<>>)
    /\ UNCHANGED <<registry, transforms, warnOnceHistory, warnings>>

\* updateGPUdependent, recalculate and setErrorQueryLatitudeDegrees are empty
UpdateGPUdependent(i) ==
    /\ last' = Call("updateGPUdependent", i, <<>>, <<>>, "", <<>>)
    /\ UNCHANGED <<registry, projections, transforms, warnOnceHistory, warnings>>

\* a recalculate that drops the cached mesh
Mut_Recalculate(i) ==
    /\ projections' = [projections EXCEPT ![i] = destroy(projections[i])]
    /\ last' = Call("recalculate", i, <<>>, <<>>, "", <<>>)
    /\ UNCHANGED <<registry, transforms, warnOnceHistory, warnings>>

Recalculate(i) ==
    /\ last' = Call("recalculate", i, <<>>, <<>>, "", <<>>)
    /\ UNCHANGED <<registry, projections, transforms, warnOnceHistory, warnings>>

SetErrorQueryLatitudeDegrees(i, value) ==
    /\ last' = Call("setErrorQueryLatitudeDegrees", i, value, <<>>, "", <<>>)
    /\ UNCHANGED <<registry, projections, transforms, warnOnceHistory, warnings>>

UseSubdivision(i) ==
    /\ last' = Call("useSubdivision", i, <<>>, useSubdivision(projections[i]), "", <<>>)
    /\ UNCHANGED <<registry, projections, transforms, warnOnceHistory, warnings>>

SubdivisionGranularity(i) ==
    /\ last' = Call("subdivisionGranularity", i, <<>>,
                    subdivisionGranularity(projections[i]), "", <<>>)
    /\ UNCHANGED <<registry, projections, transforms, warnOnceHistory, warnings>>

MeshNext ==
    \/ \E c \in MeshCreateInputs : CreateCustomCRSProjection(c[1], c[2])
    \/ \E i \in 1..Len(projections) :
          \/ \E a \in MeshCalls : GetMeshFromTileID(i, a)
          \/ Destroy(i)
          \/ UpdateGPUdependent(i)
          \/ Recalculate(i)
          \/ SetErrorQueryLatitudeDegrees(i, Num(45))
          \/ NormalizeCoordinates(i, <<Num(500), Num(250)>>)
          \/ TransformFromWGS84(i, <<Num(1), Num(1)>>)

MeshSpec == Init /\ [][MeshNext]_vars

\* the rendering metadata read between other operations of the projections
PolicyNext ==
    \/ Create
    \/ \E i \in 1..Len(projections) :
          \/ UseSubdivision(i)
          \/ SubdivisionGranularity(i)
          \/ \E a \in MeshCalls : GetMeshFromTileID(i, a)
          \/ Recalculate(i)
          \/ SetErrorQueryLatitudeDegrees(i, Num(45))
          \/ NormalizeCoordinates(i, <<Num(500), Num(250)>>)

PolicySpec == Init /\ [][PolicyNext]_vars

(***************************************************************************)
(* The configuration object after construction.  The constructor keeps the *)
(* caller's object (this._config = config) and get config returns it, so   *)
(* an assignment to a field of either is an assignment to the instance's   *)
(* configuration.                                                          *)
(***************************************************************************)
BoundsDoubled == <<0, 0, 2000, 2000>>

\* config.bounds = bounds, on the object given to (or read from) instance i
AssignConfigBounds(i, bounds) ==
    /\ projections' = [projections EXCEPT ![i].config.bounds = bounds]
    /\ last' = Call("config.bounds =", i, bounds, <<>>, "", <<>>)
    /\ UNCHANGED <<registry, transforms, warnOnceHistory, warnings>>

\* config.useSubdivision = value
AssignConfigUseSubdivision(i, value) ==
    /\ projections' = [projections EXCEPT ![i].config.useSubdivision = value]
    /\ last' = Call("config.useSubdivision =", i, value, <<>>, "", <<>>)
    /\ UNCHANGED <<registry, transforms, warnOnceHistory, warnings>>

ConfigNext ==
    \/ \E c \in MeshCreateInputs : CreateCustomCRSProjection(c[1], c[2])
    \/ \E i \in 1..Len(projections) :
          \/ AssignConfigBounds(i, BoundsDoubled)
          \/ AssignConfigUseSubdivision(i, "true")
          \/ NormalizeCoordinates(i, <<Num(500), Num(250)>>)
          \/ DenormalizeCoordinates(i, <<Rat(1, 2), Rat(1, 4)>>)
          \/ SubdivisionGranularity(i)
    \/ \E t \in 1..Len(transforms) :
          ProjectCRSToMercator(t, <<Num(500), Num(250)>>)

ConfigSpec == Init /\ [][ConfigNext]_vars

(***************************************************************************)
(* The view center in native units, and the queries of a transform and     *)
(* its projection between changes of the center and of the mesh cache      *)
(***************************************************************************)
\* the result recorded is the inverse of (x, y) and the center stored
SetCenterInCRS(t, p) ==
    \E r \in setCenterInCRS(projections[transforms[t].customProjection],
                            transforms[t].constrain, p[1], p[2]) :
       /\ transforms' = IF r.threw THEN transforms
                        ELSE [transforms EXCEPT ![t].center = r.center]
       /\ last' = Call("setCenterInCRS", t, p,
                       [lngLat |-> r.lngLat, center |-> r.center],
                       IF r.threw THEN "raw" ELSE "", <<>>)
       /\ UNCHANGED <<registry, projections, warnOnceHistory, warnings>>

\* a getCenterInCRS that moves the view back to the default center
Mut_GetCenterInCRS(t) ==
    \E r \in getCenterInCRS(projections[transforms[t].customProjection],
                           transforms[t].center) :
       /\ transforms' = [transforms EXCEPT ![t].center = DefaultCenter]
       /\ last' = Call("getCenterInCRS", t, <<>>, r.val,
                       IF r.threw THEN "raw" ELSE "", <<>>)
       /\ UNCHANGED <<registry, projections, warnOnceHistory, warnings>>

\* src is the argument of the preceding call when that was a setCenterInCRS
\* on this transform whose center was stored as given
GetCenterInCRS(t) ==
    \E r \in getCenterInCRS(projections[transforms[t].customProjection],
                           transforms[t].center) :
       /\ last' = Call("getCenterInCRS", t, <<>>, r.val,
                       IF r.threw THEN "raw" ELSE "",
                       IF /\ last.op = "setCenterInCRS" /\ last.obj = t
                          /\ last.threw = "" /\ last.res.center = last.res.lngLat
                       THEN <<last.arg>> ELSE <<>>)
       /\ UNCHANGED <<registry, projections, transforms, warnOnceHistory, warnings>>

\* configurations with and without a constrain function
CenterCreateInputs ==
    { <<Config("EPSG:2193", DefNZTM, BoundsNZTM, "absent"), "none">>,
      <<Config("EPSG:3857", NoDef, BoundsSquare, "true"), "constrainFn">> }

\* the center accessors
CenterNext ==
    \/ \E c \in CenterCreateInputs : CreateCustomCRSProjection(c[1], c[2])
    \/ \E t \in 1..Len(transforms) :
          \/ \E p \in NativePoints : SetCenterInCRS(t, p)
          \/ GetCenterInCRS(t)

CenterSpec == Init /\ [][CenterNext]_vars

\* the queries, between changes of the center and of the mesh cache
QueryNext ==
    \/ \E c \in MeshCreateInputs : CreateCustomCRSProjection(c[1], c[2])
    \/ \E i \in 1..Len(projections) :
          \/ GetMeshFromTileID(i, <<"0/0/0", FALSE, FALSE, "raster">>)
          \/ NormalizeCoordinates(i, <<Num(500), Num(250)>>)
          \/ DenormalizeCoordinates(i, <<Rat(1, 2), Rat(1, 4)>>)
          \/ TransformFromWGS84(i, <<Num(174), Num(-41)>>)
          \/ TransformToWGS84(i, <<Num(500), Num(250)>>)
    \/ \E t \in 1..Len(transforms) :
          \/ SetCenterInCRS(t, <<Num(500), Num(250)>>)
          \/ GetCenterInCRS(t)
          \/ LocationToScreenPoint(t, <<Num(1), Num(1)>>)
          \/ ScreenPointToLocation(t, <<Num(256), Num(128)>>)
          \/ ProjectCRSToMercator(t, <<Num(500), Num(250)>>)
          \/ UnprojectMercatorToCRS(t, <<Rat(1, 2), Rat(1, 4)>>)

QuerySpec == Init /\ [][QueryNext]_vars

(***************************************************************************)
(* The life of the triples: construction, the mesh cache, teardown and     *)
(* the state-changing operation of the transform                           *)
(***************************************************************************)
\* triples are built again and again from one configuration
TripleCreateInputs ==
    { <<Config("EPSG:3857", NoDef, BoundsSquare, "true"), "none">> }

TripleNext ==
    \/ \E c \in TripleCreateInputs : CreateCustomCRSProjection(c[1], c[2])
    \/ \E i \in 1..Len(projections) :
          \/ GetMeshFromTileID(i, <<"0/0/0", FALSE, FALSE, "raster">>)
          \/ Destroy(i)
          \/ Recalculate(i)
    \/ \E t \in 1..Len(transforms) :
          \/ SetCenterInCRS(t, <<Num(500), Num(250)>>)
          \/ GetCenterInCRS(t)

TripleSpec == Init /\ [][TripleNext]_vars

(***************************************************************************)
(* The constant metadata of a projection, read between its operations      *)
(***************************************************************************)
GetName(i) ==
    /\ last' = Call("name", i, <<>>, projectionName(projections[i]), "", <<>>)
    /\ UNCHANGED <<registry, projections, transforms, warnOnceHistory, warnings>>

GetShaderVariantName(i) ==
    /\ last' = Call("shaderVariantName", i, <<>>,
                    shaderVariantName(projections[i]), "", <<>>)
    /\ UNCHANGED <<registry, projections, transforms, warnOnceHistory, warnings>>

GetShaderDefine(i) ==
    /\ last' = Call("shaderDefine", i, <<>>, shaderDefine(projections[i]), "", <<>>)
    /\ UNCHANGED <<registry, projections, transforms, warnOnceHistory, warnings>>

GetTransitionState(i) ==
    /\ last' = Call("transitionState", i, <<>>,
                    transitionState(projections[i]), "", <<>>)
    /\ UNCHANGED <<registry, projections, transforms, warnOnceHistory, warnings>>

HasTransition(i) ==
    /\ last' = Call("hasTransition", i, <<>>, hasTransition(projections[i]), "", <<>>)
    /\ UNCHANGED <<registry, projections, transforms, warnOnceHistory, warnings>>

\* src is the argument of the preceding call when that was
\* setErrorQueryLatitudeDegrees on this projection
GetLatitudeErrorCorrectionRadians(i) ==
    /\ last' = Call("latitudeErrorCorrectionRadians", i, <<>>,
                    latitudeErrorCorrectionRadians(projections[i]), "",
                    IF last.op = "setErrorQueryLatitudeDegrees" /\ last.obj = i
                    THEN <<last.arg>> ELSE <<>>)
    /\ UNCHANGED <<registry, projections, transforms, warnOnceHistory, warnings>>

MetadataNext ==
    \/ \E c \in MeshCreateInputs : CreateCustomCRSProjection(c[1], c[2])
    \/ \E i \in 1..Len(projections) :
          \/ GetMeshFromTileID(i, <<"0/0/0", FALSE, FALSE, "raster">>)
          \/ Destroy(i)
          \/ UpdateGPUdependent(i)
          \/ Recalculate(i)
          \/ \E v \in {Num(45), Num(-90), NaN} : SetErrorQueryLatitudeDegrees(i, v)
          \/ GetName(i)
          \/ GetShaderVariantName(i)
          \/ GetShaderDefine(i)
          \/ GetTransitionState(i)
          \/ HasTransition(i)
          \/ GetLatitudeErrorCorrectionRadians(i)

MetadataSpec == Init /\ [][MetadataNext]_vars

(***************************************************************************)
(* Properties                                                              *)
(***************************************************************************)
NonDegenerate(b) == b[3] > b[1] /\ b[4] > b[2]

\* the bounds used by the receiver of the last call (a projection)
LastProjectionBounds == projections[last.obj].config.bounds

\* the bounds used by the receiver of the last call (a transform)
LastTransformBounds == projections[transforms[last.obj].customProjection].config.bounds

\* u is the IEEE quotient a / b of the integers a and b
IsQuotient(u, a, b) ==
    IF b = 0
    THEN u = (IF a = 0 THEN NaN ELSE Inf(Sgn(a)))
    ELSE /\ u.k = "fin"
         /\ Abs(b) % u.d = 0
         /\ u.n * (Abs(b) \div u.d) * Sgn(b) = a

\* |u - c / 10000| <= 1 / 1000 for a finite u
Near(u, c) == u.k = "fin" /\ Abs(u.n * 10000 - c * u.d) <= 10 * u.d

\* C1: round-trip law.  With non-degenerate bounds, denormalizeCoordinates
\* applied to the result of normalizeCoordinates(x, y) returns (x, y), and so
\* does unprojectMercatorToCRS applied to the result of projectCRSToMercator.
C1_RoundTrip ==
    /\ (/\ last.op = "denormalizeCoordinates"
        /\ last.src # <<>>
        /\ NonDegenerate(LastProjectionBounds))
       => last.res = last.src[1]
    /\ (/\ last.op = "unprojectMercatorToCRS"
        /\ last.src # <<>>
        /\ NonDegenerate(LastTransformBounds))
       => last.res = last.src[1]

\* a round trip of a point outside the NZTM bounds box has been made
C1_Witness ==
    /\ last.op = "unprojectMercatorToCRS"
    /\ last.src # <<>>
    /\ LastTransformBounds = BoundsNZTM
    /\ last.src[1] = <<Num(2000), Num(-1000)>>
    /\ last.res = <<Num(2000), Num(-1000)>>

\* C2: normalizeCoordinates(x, y) is exactly ((x - minX) / (maxX - minX),
\* (y - minY) / (maxY - minY)), unclamped; with bounds [0, 0, 1000, 1000],
\* normalize(500, 250) = (0.5, 0.25), normalize(2000, -1000) = (2, -1) and
\* denormalize(0.5, 0.25) = (500, 250).
C2_NormalizeFormula ==
    /\ last.op = "normalizeCoordinates" =>
          LET b == LastProjectionBounds
          IN  /\ IsQuotient(last.res[1], last.arg[1].n - b[1], b[3] - b[1])
              /\ IsQuotient(last.res[2], last.arg[2].n - b[2], b[4] - b[2])
              /\ (b = BoundsSquare /\ last.arg = <<Num(500), Num(250)>>)
                 => last.res = <<Rat(1, 2), Rat(1, 4)>>
              /\ (b = BoundsSquare /\ last.arg = <<Num(2000), Num(-1000)>>)
                 => last.res = <<Num(2), Num(-1)>>
    /\ (/\ last.op = "denormalizeCoordinates"
        /\ LastProjectionBounds = BoundsSquare
        /\ last.arg = <<Rat(1, 2), Rat(1, 4)>>)
       => last.res = <<Num(500), Num(250)>>

\* a point outside the box has been normalized to a point outside the unit square
C2_Witness ==
    /\ last.op = "normalizeCoordinates"
    /\ LastProjectionBounds = BoundsSquare
    /\ last.arg = <<Num(2000), Num(-1000)>>
    /\ last.res = <<Num(2), Num(-1)>>

\* C3: no projection with degenerate bounds (maxX <= minX or maxY <= minY)
\* is ever constructed.
C3_BoundsEnforced ==
    \A i \in 1..Len(projections) : NonDegenerate(projections[i].config.bounds)

Unknown(name) ==
    ~name.isArray /\ name.val \notin {"mercator", "globe", "vertical-perspective"}

Count(seq, m) == Cardinality({k \in 1..Len(seq) : seq[k] = m})

IsMercatorTriple(t) ==
    /\ t.projection = "MercatorProjection"
    /\ t.transform = "MercatorTransform"
    /\ t.cameraHelper = "MercatorCameraHelper"

\* C4 as stated: every call with an unknown name returns normally with the
\* Mercator triple and emits exactly one warning.
C4_OneWarningPerCall ==
    (last.op = "createProjectionFromName" /\ Unknown(last.arg[1])) =>
        /\ last.threw = ""
        /\ IsMercatorTriple(last.res.triple)
        /\ last.res.logged = 1

\* C4 as amended: every call with an unknown name returns normally with the
\* Mercator triple and calls warnOnce exactly once; the console holds exactly
\* one warning for that name however often it was requested, and no warning
\* for anything but an unknown name.
C4_UnknownKindFallback ==
    /\ (last.op = "createProjectionFromName" /\ Unknown(last.arg[1])) =>
          /\ last.threw = ""
          /\ IsMercatorTriple(last.res.triple)
          /\ last.res.triple.constrain = last.arg[2]
          /\ last.res.warnOnceCalls = 1
          /\ Count(warnings, last.arg[1].val) = 1
    /\ \A k \in 1..Len(warnings) :
          /\ Unknown(Name(warnings[k]))
          /\ Count(warnings, warnings[k]) = 1

\* an unknown name has been requested again: no new warning, same triple
C4_Witness ==
    /\ last.op = "createProjectionFromName"
    /\ Unknown(last.arg[1])
    /\ last.res.logged = 0
    /\ Len(warnings) = 2
    /\ IsMercatorTriple(last.res.triple)

\* C5: every call returns one matched triple: 'mercator' -> Mercator,
\* 'globe' or an array -> Globe, 'vertical-perspective' -> VerticalPerspective;
\* never a mixed triple.
C5_BindingRules ==
    last.op = "createProjectionFromName" =>
        LET n == last.arg[1]
            t == last.res.triple
            kind == IF n.isArray \/ n.val = "globe" THEN "Globe"
                    ELSE IF n.val = "vertical-perspective" THEN "VerticalPerspective"
                    ELSE "Mercator"
        IN  /\ last.threw = ""
            /\ kind = "Globe" =>
                  /\ t.projection = "GlobeProjection"
                  /\ t.transform = "GlobeTransform"
                  /\ t.cameraHelper = "GlobeCameraHelper"
            /\ kind = "VerticalPerspective" =>
                  /\ t.projection = "VerticalPerspectiveProjection"
                  /\ t.transform = "VerticalPerspectiveTransform"
                  /\ t.cameraHelper = "VerticalPerspectiveCameraHelper"
            /\ kind = "Mercator" => IsMercatorTriple(t)

\* the name 'globe' has been requested and a Globe triple returned
C5_Witness ==
    /\ last.op = "createProjectionFromName"
    /\ last.arg[1] = Name("globe")
    /\ last.res.triple.transform = "GlobeTransform"
    /\ last.res.triple.cameraHelper = "GlobeCameraHelper"

\* C6: every triple returned by createCustomCRSProjection holds the new
\* projection, a CustomCRSTransform bound to it that received the constrain
\* function, and a MercatorCameraHelper, whatever the bounds or useSubdivision.
C6_CustomTriple ==
    /\ Len(transforms) = Len(projections)
    /\ (last.op = "createCustomCRSProjection" /\ last.threw = "") =>
          /\ last.obj = Len(projections)
          /\ projections[last.obj].config = last.arg[1]
          /\ transforms[last.obj].kind = "CustomCRSTransform"
          /\ transforms[last.obj].customProjection = last.obj
          /\ transforms[last.obj].constrain = last.arg[2]
          /\ last.res.cameraHelper = "MercatorCameraHelper"

\* a triple has been returned for a subdivided config and a constrain function
C6_Witness ==
    /\ last.op = "createCustomCRSProjection"
    /\ last.threw = ""
    /\ last.arg[1].useSubdivision = "true"
    /\ last.arg[2] = "constrainFn"
    /\ transforms[last.obj].constrain = "constrainFn"
    /\ last.res.cameraHelper = "MercatorCameraHelper"

\* C7: a construction whose CRS cannot be resolved throws an error whose
\* message names config.code (and returns no triple).
C7_ErrorNamesCode ==
    last.op = "createCustomCRSProjection" =>
        LET config == last.arg[1]
        IN  /\ last.threw # "" => last.res.msgCode = config.code
            /\ (config.definition \notin ResolvableDefs \cup {NoDef}) => last.threw # ""

\* the native image of a geographic coordinate under the receiver's converter
\* (<<>> when the coordinate is outside the converter's domain)
NativeImage(proj, ll) ==
    IF IsInt(ll[1]) /\ IsInt(ll[2])
       /\ <<ll[1].n, ll[2].n>> \in DOMAIN ForwardTable(proj.converter)
    THEN <<ForwardTable(proj.converter)[<<ll[1].n, ll[2].n>>]>>
    ELSE <<>>

LastTransformProjection == projections[transforms[last.obj].customProjection]

\* C8: a conversion whose converter result is NaN or infinite signals an
\* error; no call returns normally with a NaN or infinite coordinate.
C8_DomainErrorsSignalled ==
    (/\ last.op \in {"transformFromWGS84", "transformToWGS84",
                     "locationToScreenPoint", "screenPointToLocation"}
     /\ last.threw = "")
    => IsFinite(last.res[1]) /\ IsFinite(last.res[2])

\* C9 as stated: the forward stub's image of (174, -41), normalized against
\* the NZTM bounds, is the unit-square point u = 0.4815, v = 0.5730 (+-1e-3).
C9_ScenarioAsStated ==
    (/\ last.op = "locationToScreenPoint"
     /\ last.threw = ""
     /\ last.arg = <<Num(174), Num(-41)>>
     /\ LastTransformBounds = BoundsNZTM)
    => Near(last.src[1][1], 4815) /\ Near(last.src[1][2], 5730)

\* C9 as amended: locationToScreenPoint returns coordinatePoint of the
\* converter's forward result normalized against the bounds; for the stub and
\* the NZTM bounds the unit-square point is u = 0.4831, v = 0.5730 (+-1e-3).
C9_Composition ==
    (last.op = "locationToScreenPoint" /\ last.threw = "") =>
        LET image == NativeImage(LastTransformProjection, last.arg)
            b     == LastTransformBounds
            mc    == last.src[1]
        IN  /\ last.res = coordinatePoint(mc)
            /\ (image # <<>> /\ IsFinite(image[1][1]) /\ IsFinite(image[1][2])) =>
                  /\ IsQuotient(mc[1], image[1][1].n - b[1], b[3] - b[1])
                  /\ IsQuotient(mc[2], image[1][2].n - b[2], b[4] - b[2])
            /\ (last.arg = <<Num(174), Num(-41)>> /\ b = BoundsNZTM) =>
                  /\ image = <<(<<Num(1748816), Num(5428960)>>)>>
                  /\ Near(mc[1], 4831)
                  /\ Near(mc[2], 5730)

\* the scenario's coordinate has been converted under the NZTM bounds
C9_Witness ==
    /\ last.op = "locationToScreenPoint"
    /\ last.threw = ""
    /\ last.arg = <<Num(174), Num(-41)>>
    /\ LastTransformBounds = BoundsNZTM
    /\ Near(last.src[1][1], 4831)
    /\ last.res = coordinatePoint(last.src[1])

\* the point lies inside the bounds box
InsideBounds(xy, b) ==
    /\ IsInt(xy[1]) /\ IsInt(xy[2])
    /\ b[1] <= xy[1].n /\ xy[1].n <= b[3]
    /\ b[2] <= xy[2].n /\ xy[2].n <= b[4]

\* C10: screenPointToLocation applied to the result of
\* locationToScreenPoint(lnglat) returns lnglat, for every lnglat whose
\* native image lies inside the configured bounds.
C10_GeoRoundTrip ==
    (/\ last.op = "screenPointToLocation"
     /\ last.src # <<>>
     /\ NativeImage(LastTransformProjection, last.src[1]) # <<>>
     /\ InsideBounds(NativeImage(LastTransformProjection, last.src[1])[1],
                     LastTransformBounds))
    => last.threw = "" /\ last.res = last.src[1]

\* C11: default-projection transparency.  createProjectionFromName('mercator')
\* returns a plain MercatorProjection / MercatorTransform / MercatorCameraHelper
\* triple without a warning; no name makes the factory by name return a
\* CustomCRSProjection or a CustomCRSTransform, build a converter or register
\* a definition: the custom-CRS overrides exist only on the transforms that
\* createCustomCRSProjection returns.
C11_DefaultTransparency ==
    last.op = "createProjectionFromName" =>
        /\ last.res.triple.transform # "CustomCRSTransform"
        /\ last.res.triple.projection # "CustomCRSProjection"
        /\ projections = <<>> /\ transforms = <<>>
        /\ \A c \in Codes : registry[c] = (IF c = "EPSG:3857" THEN DefBuiltin3857 ELSE NoDef)
        /\ last.arg[1] = Name("mercator") =>
               /\ last.res.triple.projection = "MercatorProjection"
               /\ last.res.triple.transform = "MercatorTransform"
               /\ last.res.triple.cameraHelper = "MercatorCameraHelper"
               /\ last.res.triple.constrain = last.arg[2]
               /\ last.res.warnOnceCalls = 0

\* 'mercator' was requested with a constrain function after an unknown name
\* had already been warned about
C11_Witness ==
    /\ last.op = "createProjectionFromName"
    /\ last.arg = <<Name("mercator"), "constrainFn">>
    /\ last.res.triple.transform = "MercatorTransform"
    /\ warnings # <<>>

\* C20: globe construction.  'globe' builds a GlobeProjection whose type is the
\* zoom-keyed linear interpolation with stops 11 -> 'vertical-perspective' and
\* 12 -> 'mercator'; an array name is passed unchanged as the type; in both
\* cases the GlobeCameraHelper is constructed with the very GlobeProjection
\* object returned in the triple.
C20_GlobeConstruction ==
    (/\ last.op = "createProjectionFromName"
     /\ (last.arg[1].isArray \/ last.arg[1] = Name("globe")))
    => /\ last.res.triple.projection = "GlobeProjection"
       /\ last.res.triple.cameraHelper = "GlobeCameraHelper"
       /\ last.res.triple.type =
             (IF last.arg[1].isArray THEN last.arg[1].val
              ELSE "interpolate linear zoom 11 vertical-perspective 12 mercator")
       /\ last.res.objects.projection # 0
       /\ last.res.objects.helperProjection = last.res.objects.projection

\* an array name other than the 'globe' expression was passed through
C20_Witness ==
    /\ last.op = "createProjectionFromName"
    /\ last.arg[1] = ArrayName("interpolate linear zoom 5 mercator 6 globe")
    /\ last.res.triple.type = "interpolate linear zoom 5 mercator 6 globe"
    /\ last.res.objects.helperProjection = 1

\* C12: shared tile mesh.  Between two destroy() calls (or since construction)
\* every getMeshFromTileID call on an instance returns one and the same Mesh
\* object, whatever the tile id, border flag, pole flag and usage, and the
\* vertex and index buffers are created exactly once, by the first call.
C12_SharedMesh ==
    \A i \in 1..Len(projections) :
        /\ Cardinality(projections[i].handedOut) <= 1
        /\ projections[i].buffers = Cardinality(projections[i].handedOut)
        /\ projections[i].handedOut \subseteq {projections[i].cachedMesh}
        /\ (last.op = "getMeshFromTileID" /\ last.obj = i)
              => last.res = projections[i].cachedMesh /\ last.res # NoMesh

\* after a destroy() and a rebuild, a call for another tile, with border,
\* poles and another usage, got the rebuilt mesh
C12_Witness ==
    /\ last.op = "getMeshFromTileID"
    /\ last.arg = <<"3/1/2", TRUE, TRUE, "stencil">>
    /\ last.res.serial = 2
    /\ projections[last.obj].buffers = 1
    /\ projections[last.obj].handedOut = {last.res}

\* C13: mesh cache invalidation.  The cache slot of an instance goes from
\* present to absent only in destroy() on that instance and from absent to
\* present only in getMeshFromTileID on that instance; a cached mesh is never
\* replaced by another one, Mesh values are never altered, and a new instance
\* starts with an empty slot.
C13_CacheInvalidation ==
    [][/\ \A i \in 1..Len(projections) :
             projections'[i].cachedMesh # projections[i].cachedMesh =>
                 \/ /\ projections[i].cachedMesh # NoMesh
                    /\ projections'[i].cachedMesh = NoMesh
                    /\ last'.op = "destroy" /\ last'.obj = i
                 \/ /\ projections[i].cachedMesh = NoMesh
                    /\ projections'[i].cachedMesh # NoMesh
                    /\ last'.op = "getMeshFromTileID" /\ last'.obj = i
       /\ Len(projections') > Len(projections) =>
             projections'[Len(projections')].cachedMesh = NoMesh
      ]_vars

\* destroy() has emptied the slot of one instance after other operations,
\* while another instance keeps its mesh
C13_Witness ==
    /\ last.op = "destroy"
    /\ last.res # NoMesh
    /\ projections[last.obj].cachedMesh = NoMesh
    /\ \E j \in 1..Len(projections) : projections[j].cachedMesh # NoMesh

\* C14: subdivided mesh.  With useSubdivision = true, getMeshFromTileID
\* returns a mesh tessellated into a regular grid (more than the four
\* vertices and two triangles of the flat quad); the flat quad is returned
\* only when subdivision is not requested.
C14_SubdividedMesh ==
    last.op = "getMeshFromTileID" =>
        IF useSubdivision(projections[last.obj])
        THEN Len(last.res.vertices) > 4 /\ Len(last.res.indices) > 2
        ELSE last.res.vertices = QuadVertices /\ last.res.indices = QuadIndices

\* C15: subdivision policy.  useSubdivision is false when the flag is omitted
\* or false and true when it is true; subdivisionGranularity is the
\* no-subdivision setting in the first case and fill = line = 256,
\* tile = stencil = 512, circle = 5 in the second, whatever was done before.
C15_SubdivisionPolicy ==
    /\ last.op = "useSubdivision" =>
          last.res = (projections[last.obj].config.useSubdivision = "true")
    /\ last.op = "subdivisionGranularity" =>
          IF projections[last.obj].config.useSubdivision \in {"absent", "false"}
          THEN last.res = noSubdivision
          ELSE /\ last.res.fill.base = 256 /\ last.res.line.base = 256
               /\ last.res.tile.base = 512 /\ last.res.stencil.base = 512
               /\ last.res.circle = 5
               /\ last.res.fill = last.res.line
               /\ last.res.tile = last.res.stencil

\* the granularity was read from an instance with the flag set that had
\* already built its mesh, next to an instance with the flag explicitly false
C15_Witness ==
    /\ last.op = "subdivisionGranularity"
    /\ projections[last.obj].config.useSubdivision = "true"
    /\ projections[last.obj].cachedMesh # NoMesh
    /\ last.res.fill.base = 256
    /\ \E j \in 1..Len(projections) : projections[j].config.useSubdivision = "false"

\* C16: configuration immutability.  Whatever the caller does afterwards with
\* the configuration object it gave to the constructor, or with the object
\* the config getter returns, the results of normalizeCoordinates,
\* denormalizeCoordinates, subdivisionGranularity and the screen conversions
\* of an existing instance stay what they were.
C16_ConfigImmutable ==
    [][\A i \in 1..Len(projections) :
          /\ subdivisionGranularity(projections'[i]) = subdivisionGranularity(projections[i])
          /\ \A p \in NativePoints :
                /\ normalizeCoordinates(projections'[i].config.bounds, p[1], p[2])
                     = normalizeCoordinates(projections[i].config.bounds, p[1], p[2])
                /\ projectCRSToMercator(projections'[i], p[1], p[2])
                     = projectCRSToMercator(projections[i], p[1], p[2])
          /\ \A q \in UnitPoints :
                denormalizeCoordinates(projections'[i].config.bounds, q[1], q[2])
                  = denormalizeCoordinates(projections[i].config.bounds, q[1], q[2])
      ]_vars

QueryOps ==
    {"locationToScreenPoint", "screenPointToLocation", "getCenterInCRS",
     "projectCRSToMercator", "unprojectMercatorToCRS", "normalizeCoordinates",
     "denormalizeCoordinates", "transformFromWGS84", "transformToWGS84"}

\* C17: queries are free of side effects.  A step of one of the queries
\* leaves the converter registry, every projection (configuration, converter,
\* mesh cache) and every transform (bound projection, constrain function,
\* center) as they were, and a query repeated at once on the same receiver
\* with the same arguments has the same result (the converter's treatment of
\* a non-finite input, rejected or propagated, being the same both times).
C17_QueriesPure ==
    [][last'.op \in QueryOps =>
          /\ UNCHANGED <<registry, projections, transforms>>
          /\ (/\ last.op = last'.op /\ last.obj = last'.obj
              /\ last.arg = last'.arg /\ last.threw = last'.threw)
             => last'.res = last.res
      ]_vars

\* the center was read in native units from a transform that had been moved
\* and whose projection had built its mesh
C17_Witness ==
    /\ last.op = "getCenterInCRS"
    /\ last.threw = ""
    /\ transforms[last.obj].center # DefaultCenter
    /\ projections[transforms[last.obj].customProjection].cachedMesh # NoMesh

\* C19: native-unit center accessors.  setCenterInCRS(x, y) hands the
\* converter's inverse of (x, y) to setCenter, and the center is what
\* setCenter stored; getCenterInCRS() returns the converter's forward
\* transform of the current center; so, when (x, y) is in the converter's
\* range and setCenter stored the center as given, getCenterInCRS() right
\* after setCenterInCRS(x, y) returns (x, y), in native units and not
\* normalized by the bounds.
C19_CenterAccessors ==
    /\ (last.op = "setCenterInCRS" /\ last.threw = "") =>
          /\ [threw |-> FALSE, val |-> last.res.lngLat]
                \in transformToWGS84(LastTransformProjection, last.arg[1], last.arg[2])
          /\ transforms[last.obj].center = last.res.center
    /\ (last.op = "getCenterInCRS" /\ last.threw = "") =>
          [threw |-> FALSE, val |-> last.res]
            \in transformFromWGS84(LastTransformProjection,
                                   transforms[last.obj].center[1],
                                   transforms[last.obj].center[2])
    /\ (/\ last.op = "getCenterInCRS"
        /\ last.src # <<>>
        /\ IsFinite(transforms[last.obj].center[1])
        /\ IsFinite(transforms[last.obj].center[2]))
       => last.threw = "" /\ last.res = last.src[1]

\* the center was set to a point of the NZTM grid and read back unchanged,
\* far outside the unit square
C19_Witness ==
    /\ last.op = "getCenterInCRS"
    /\ last.src = << <<Num(1748816), Num(5428960)>> >>
    /\ last.res = <<Num(1748816), Num(5428960)>>
    /\ transforms[last.obj].center = <<Num(174), Num(-41)>>
    /\ LastTransformBounds = BoundsNZTM

\* C18: definition registration.  A construction with a definition registers
\* it only if the code is not yet known to the converter registry (a code
\* already registered keeps its definition, and no other code is touched); a
\* construction without a definition leaves the registry alone and succeeds
\* exactly when the code is already registered.
C18_RegisterOnlyIfUnknown ==
    [][last'.op = "createCustomCRSProjection" =>
          LET config == last'.arg[1]
          IN  /\ \A c \in Codes \ {config.code} : registry'[c] = registry[c]
              /\ registry[config.code] # NoDef =>
                    registry'[config.code] = registry[config.code]
              /\ config.definition = NoDef =>
                    /\ registry' = registry
                    /\ last'.threw = "" <=> registry[config.code] # NoDef
      ]_vars

\* C21: triple consistency and freshness.  The transform of every triple
\* returned by createCustomCRSProjection is bound to the projection of that
\* triple and no step rebinds it; every successful call adds one new
\* projection (with its own converter and an empty mesh cache) and one new
\* transform and leaves the earlier ones as they were; a cached mesh belongs
\* to the instance that built it, so no two instances hold the same mesh; and
\* destroy() on one projection leaves every other projection, its cached
\* mesh included, untouched.
C21_TripleFreshness ==
    /\ [](/\ Len(transforms) = Len(projections)
          /\ \A t \in 1..Len(transforms) : transforms[t].customProjection = t
          /\ \A i \in 1..Len(projections) :
                projections[i].cachedMesh # NoMesh =>
                    projections[i].cachedMesh.owner = i
          /\ \A i, j \in 1..Len(projections) :
                (i # j /\ projections[i].cachedMesh # NoMesh) =>
                    projections[i].cachedMesh # projections[j].cachedMesh)
    /\ [][/\ \A t \in 1..Len(transforms) :
                transforms'[t].customProjection = transforms[t].customProjection
          /\ \A i \in 1..Len(projections) :
                projections'[i].converter = projections[i].converter
          /\ (last'.op = "createCustomCRSProjection" /\ last'.threw = "") =>
                /\ Len(projections') = Len(projections) + 1
                /\ Len(transforms') = Len(transforms) + 1
                /\ projections'[Len(projections')].cachedMesh = NoMesh
                /\ \A i \in 1..Len(projections) : projections'[i] = projections[i]
                /\ \A t \in 1..Len(transforms) : transforms'[t] = transforms[t]
          /\ last'.op = "destroy" =>
                \A j \in 1..Len(projections) :
                    j # last'.obj => projections'[j] = projections[j]
         ]_vars

\* destroy() has emptied the cache of the first of two projections built from
\* the same configuration, and the second one, bound to a transform that has
\* been moved, still holds its mesh
C21_Witness ==
    /\ Len(projections) = 2
    /\ projections[1].config = projections[2].config
    /\ last.op = "destroy" /\ last.obj = 1 /\ last.res # NoMesh
    /\ projections[1].cachedMesh = NoMesh
    /\ projections[2].cachedMesh # NoMesh
    /\ transforms[2].customProjection = 2
    /\ transforms[2].center # DefaultCenter

\* C22: the metadata of a custom-CRS projection is constant.  Whatever
\* recalculate, setErrorQueryLatitudeDegrees(v), updateGPUdependent,
\* getMeshFromTileID and destroy calls came before, transitionState is 0,
\* hasTransition() is false, latitudeErrorCorrectionRadians is 0,
\* shaderVariantName is 'custom-crs' and name is 'mercator', for every
\* instance in every reachable state; so setErrorQueryLatitudeDegrees has no
\* effect that these accessors could show.
C22_ConstantMetadata ==
    /\ last.op = "transitionState" => last.res = 0
    /\ last.op = "hasTransition" => last.res = FALSE
    /\ last.op = "latitudeErrorCorrectionRadians" => last.res = 0
    /\ last.op = "shaderVariantName" => last.res = "custom-crs"
    /\ last.op = "name" => last.res = "mercator"
    /\ \A i \in 1..Len(projections) :
          /\ transitionState(projections[i]) = 0
          /\ hasTransition(projections[i]) = FALSE
          /\ latitudeErrorCorrectionRadians(projections[i]) = 0
          /\ shaderVariantName(projections[i]) = "custom-crs"
          /\ projectionName(projections[i]) = "mercator"

\* the latitude correction was read right after
\* setErrorQueryLatitudeDegrees(45), on an instance that has built a mesh,
\* been torn down and built a mesh again
C22_Witness ==
    /\ last.op = "latitudeErrorCorrectionRadians"
    /\ last.src = <<Num(45)>>
    /\ last.res = 0
    /\ projections[last.obj].meshes = 2
    /\ projections[last.obj].cachedMesh # NoMesh

====
